---- MODULE Spec2Model ----
(***************************************************************************)
(* State-machine model of examples/local_file_organization/load.py:        *)
(* the four file readers and the PDF cache, the process pool of            *)
(* load_documents_multiprocessing, the recursive summarisation, and the    *)
(* main script (describe, dump JSON, copy into the topic tree).            *)
(*                                                                         *)
(* A text is modelled by its number of tokens (the empty string is 0).     *)
(* A file path is a record [stem, ext]; ext keeps the case of the name.    *)
(***************************************************************************)
EXTENDS Integers, Sequences, FiniteSets, TLC

VARIABLES
    disk,         \* source files: path -> [ok, text]; ok = the file can be read
    pdf_cache,    \* module-level pdf_cache of the current (parent) process
    succeeded,    \* history: paths some read_pdf_file call read successfully
    failedOnce,   \* history: paths some read_pdf_file call failed to read
    calls,        \* number of read_pdf_file calls made so far
    last,         \* record of the latest read_pdf_file call
    stack,        \* call stack of summarize_text_recursively, innermost last
    maxDepth,     \* history: largest recursion_depth an invocation was entered with
    genOver,      \* history: generate_summary was given a text of more than one chunk
    limitHit,     \* history: an invocation returned its text as is (depth guard)
    sdone,        \* the outermost summarize_text_recursively call has returned
    sresult,      \* the text the outermost call returned
    dirExists,    \* os.path.exists(path) of the source directory
    walk,         \* the files of the source directory in os.walk order
    tasks,        \* file paths given to pool.map, one per document of the reader
    nextTask,     \* index of the next task no worker has taken yet
    wtask,        \* pool worker -> indices of the tasks of the chunk it took, left to run
    wcache,       \* pool worker -> that process's own pdf_cache
    wopened,      \* history: pool worker -> PDF paths that worker opened itself
    results,      \* task index -> result of process_document (kind "pending" before)
    lpc,          \* position of load_documents_multiprocessing
    documents,    \* returned list of documents
    file_paths,   \* returned list of file paths
    mpc,          \* position of the main script
    idx,          \* index of the current loop of the main script
    text_and_pdf_tuples,  \* (file_path, text) of the text and PDF documents
    images,       \* descriptions_and_embeddings_images, in insertion order
    texts,        \* descriptions_and_embeddings_texts
    jsonWrites,   \* how often each JSON file was written
    fsFiles,      \* files that exist in the destination file system
    fsDirs,       \* directories that exist in the destination file system
    renamed_files,
    processed_files,
    uploaded_files_count,
    generated_files_count,
    copies,       \* history: the shutil.copy2 calls made, in order
    mkdirs        \* history: the directories create_directory_structure made

pdfVars == <<disk, pdf_cache, succeeded, failedOnce, calls, last>>
sumVars == <<stack, maxDepth, genOver, limitHit, sdone, sresult>>
loadVars == <<dirExists, walk, tasks, nextTask, wtask, wcache, wopened, results,
              lpc, documents, file_paths>>
mainVars == <<mpc, idx, text_and_pdf_tuples, images, texts, jsonWrites, fsFiles, fsDirs,
              renamed_files, processed_files, uploaded_files_count,
              generated_files_count, copies, mkdirs>>
vars == <<pdfVars, sumVars, loadVars, mainVars>>

\* ---------------------------------------------------------------- bounds
MaxContent == 2      \* longest file text, in tokens
MaxCalls == 4        \* read_pdf_file calls in one process
ChunkSize == 2       \* max_chunk_size given to summarize_text_recursively, in tokens
MaxTextLen == 4      \* longest text given to summarize_text_recursively
MaxSummaryLen == 3   \* longest text generate_summary returns
MaxWalk == 11        \* most files in the source directory
MaxPages == 2        \* most documents the directory reader yields for one PDF
NumWorkers == 2      \* cpu_count()
MaxBad == 5          \* the unreadable file, if any, is among the first MaxBad

\* ---------------------------------------------------------------- constants
MAX_RECURSION_DEPTH == 5
FILE_LIMIT == 10         \* file_paths[:10]
LOAD_CHUNK_SIZE == 6144  \* chunk_size of process_document

\* ---------------------------------------------------------------- paths
Lower(ext) ==
    CASE ext = ".PDF" -> ".pdf"
      [] ext = ".JPG" -> ".jpg"
      [] ext = ".TXT" -> ".txt"
      [] OTHER -> ext

\* os.path.splitext(file_path.lower())[1]
FileExt(path) == Lower(path.ext)

EmptyCache == [p \in {} |-> 0]

Contents == 0..MaxContent
DiskEntries == [ok : BOOLEAN, text : Contents]

\* ---------------------------------------------------------------- readers
\* A reader's outcome: the text returned, the cache afterwards, whether the
\* file was opened, and whether an exception left the reader.
Outcome(ret, cache, opened, raised) ==
    [ret |-> ret, cache |-> cache, opened |-> opened, raised |-> raised]

ReadPdfCachingFailures(cache, path, entry) ==
    IF path \in DOMAIN cache
    THEN Outcome(cache[path], cache, FALSE, FALSE)
    ELSE IF entry.ok
         THEN Outcome(entry.text, (path :> entry.text) @@ cache, TRUE, FALSE)
         ELSE Outcome(0, (path :> 0) @@ cache, TRUE, FALSE)

read_pdf_file(cache, path, entry) ==
    IF path \in DOMAIN cache
    THEN Outcome(cache[path], cache, FALSE, FALSE)
    ELSE IF entry.ok
         THEN Outcome(entry.text, (path :> entry.text) @@ cache, TRUE, FALSE)
         ELSE Outcome(0, cache, TRUE, FALSE)

read_image_file(cache, path, entry) ==
    IF entry.ok
    THEN Outcome(entry.text, cache, TRUE, FALSE)
    ELSE Outcome(0, cache, TRUE, FALSE)

read_word_file(cache, path, entry) ==
    IF entry.ok
    THEN Outcome(entry.text, cache, TRUE, FALSE)
    ELSE Outcome(0, cache, TRUE, TRUE)

read_text_file(cache, path, entry) ==
    IF entry.ok
    THEN Outcome(entry.text, cache, TRUE, FALSE)
    ELSE Outcome(0, cache, TRUE, TRUE)

\* ------------------------------------------------ read_pdf_file in one process
PdfPaths == {[stem |-> 1, ext |-> ".pdf"], [stem |-> 2, ext |-> ".PDF"]}

NoCall == [path |-> [stem |-> 0, ext |-> ""], ret |-> 0, hit |-> FALSE,
           opened |-> FALSE, ok |-> FALSE, before |-> EmptyCache]

PdfIdle ==
    /\ disk = <<>>
    /\ pdf_cache = EmptyCache
    /\ succeeded = {}
    /\ failedOnce = {}
    /\ calls = 0
    /\ last = NoCall

NoText == [len |-> 0, kind |-> "none"]

SumIdle ==
    /\ stack = <<>>
    /\ maxDepth = 0
    /\ genOver = FALSE
    /\ limitHit = FALSE
    /\ sdone = FALSE
    /\ sresult = NoText

LoadIdle ==
    /\ dirExists = FALSE
    /\ walk = <<>>
    /\ tasks = <<>>
    /\ nextTask = 1
    /\ wtask = <<>>
    /\ wcache = <<>>
    /\ wopened = <<>>
    /\ results = <<>>
    /\ lpc = "idle"
    /\ documents = <<>>
    /\ file_paths = <<>>

MainIdle ==
    /\ mpc = "idle"
    /\ idx = 1
    /\ text_and_pdf_tuples = <<>>
    /\ images = <<>>
    /\ texts = <<>>
    /\ jsonWrites = [images |-> 0, texts |-> 0]
    /\ fsFiles = {}
    /\ fsDirs = {}
    /\ renamed_files = {}
    /\ processed_files = {}
    /\ uploaded_files_count = 0
    /\ generated_files_count = 0
    /\ copies = <<>>
    /\ mkdirs = {}

PdfInit ==
    /\ SumIdle
    /\ LoadIdle
    /\ MainIdle
    /\ disk \in [PdfPaths -> DiskEntries]
    /\ pdf_cache = EmptyCache
    /\ succeeded = {}
    /\ failedOnce = {}
    /\ calls = 0
    /\ last = NoCall

\* One call read_pdf_file(p) against the file as it is on disk now.
PdfCall(p) ==
    /\ calls < MaxCalls
    /\ LET r == read_pdf_file(pdf_cache, p, disk[p]) IN
        /\ pdf_cache' = r.cache
        /\ succeeded' = IF r.opened /\ disk[p].ok THEN succeeded \cup {p} ELSE succeeded
        /\ failedOnce' = IF r.opened /\ ~disk[p].ok THEN failedOnce \cup {p} ELSE failedOnce
        /\ last' = [path |-> p, ret |-> r.ret, hit |-> p \in DOMAIN pdf_cache,
                    opened |-> r.opened, ok |-> disk[p].ok, before |-> pdf_cache]
    /\ calls' = calls + 1
    /\ UNCHANGED <<disk, sumVars, loadVars, mainVars>>

\* The environment rewrites, repairs or damages a file between two calls.
PdfDiskChange(p, e) ==
    /\ calls < MaxCalls
    /\ disk[p] # e
    /\ disk' = [disk EXCEPT ![p] = e]
    /\ UNCHANGED <<pdf_cache, succeeded, failedOnce, calls, last, sumVars, loadVars, mainVars>>

PdfNext ==
    \/ \E p \in PdfPaths : PdfCall(p)
    \/ \E p \in PdfPaths, e \in DiskEntries : PdfDiskChange(p, e)

SpecPdf == PdfInit /\ [][PdfNext]_vars

\* C10: pdf_cache holds exactly the paths of successful reads; a failed read
\* returns the empty string and leaves pdf_cache unchanged; a call for a cached
\* path returns the cached content without opening the file.
C10_CacheHoldsSuccessfulReads ==
    /\ DOMAIN pdf_cache = succeeded
    /\ (calls > 0 /\ last.opened /\ ~last.ok) =>
           (last.ret = 0 /\ pdf_cache = last.before)
    /\ (calls > 0 /\ last.hit) =>
           (~last.opened /\ last.ret = last.before[last.path]
            /\ pdf_cache = last.before)
    /\ (calls > 0 /\ last.opened /\ last.ok) =>
           (last.path \in DOMAIN pdf_cache /\ pdf_cache[last.path] = last.ret)

\* A path whose first read failed, was read again successfully, and is now
\* served from the cache while the file on disk holds something else.
C10_Witness ==
    /\ calls > 0
    /\ last.hit
    /\ last.path \in failedOnce
    /\ last.path \in succeeded
    /\ disk[last.path].text # last.ret

\* ------------------------------------------------ summarize_text_recursively
Min(a, b) == IF a < b THEN a ELSE b

\* TokenTextSplitter(chunk_size).split_text on a text of n tokens: the chunk
\* lengths. Chunks are filled up to chunk_size; the empty text is one empty chunk.
RECURSIVE SplitText(_, _)
SplitText(n, chunk_size) ==
    IF n <= chunk_size
    THEN <<n>>
    ELSE <<chunk_size>> \o SplitText(n - chunk_size, chunk_size)

DepthGuardOffByOne(recursion_depth) == recursion_depth > MAX_RECURSION_DEPTH + 1

\* if recursion_depth > MAX_RECURSION_DEPTH
DepthExceeded(recursion_depth) == recursion_depth > MAX_RECURSION_DEPTH

FitsTwoChunks(n, chunk_size) == Len(SplitText(n, chunk_size)) <= 2

\* if len(splitter.split_text(combined_summaries)) <= 1
FitsOneChunk(n, chunk_size) == Len(SplitText(n, chunk_size)) <= 1

\* What generate_summary may return: any text up to MaxSummaryLen tokens.
Summaries == [len : 0..MaxSummaryLen, kind : {"gen"}]

Frame(text, depth) ==
    [pc |-> "enter", text |-> text, depth |-> depth, chunks |-> <<>>, i |-> 1, acc |-> 0]

Pop(s) == SubSeq(s, 1, Len(s) - 1)

\* A return of value v to the frames s below the returning one: a frame waiting
\* in `return summarize_text_recursively(...)` returns v in turn; a frame in its
\* chunk loop appends v to summaries.
RECURSIVE Deliver(_, _)
Deliver(s, v) ==
    IF s = <<>>
    THEN [stack |-> <<>>, done |-> TRUE, result |-> v]
    ELSE LET top == s[Len(s)] IN
         IF top.pc = "tail"
         THEN Deliver(Pop(s), v)
         ELSE [stack |-> [s EXCEPT ![Len(s)] =
                             [top EXCEPT !.acc = @ + v.len, !.i = @ + 1]],
               done |-> FALSE, result |-> NoText]

Return(v) ==
    LET d == Deliver(Pop(stack), v) IN
    /\ stack' = d.stack
    /\ sdone' = d.done
    /\ sresult' = d.result

Top == stack[Len(stack)]

SumInit ==
    /\ PdfIdle
    /\ LoadIdle
    /\ MainIdle
    /\ \E n \in 0..MaxTextLen : stack = <<Frame([len |-> n, kind |-> "input"], 0)>>
    /\ maxDepth = 0
    /\ genOver = FALSE
    /\ limitHit = FALSE
    /\ sdone = FALSE
    /\ sresult = NoText

\* recursion_depth > MAX_RECURSION_DEPTH: return text as is.
SumStop ==
    /\ stack # <<>>
    /\ Top.pc = "enter"
    /\ DepthExceeded(Top.depth)
    /\ Return(Top.text)
    /\ limitHit' = TRUE
    /\ UNCHANGED <<maxDepth, genOver, pdfVars, loadVars, mainVars>>

\* len(chunks) == 1: return generate_summary(chunks[0]).
SumDirect ==
    /\ stack # <<>>
    /\ Top.pc = "enter"
    /\ ~DepthExceeded(Top.depth)
    /\ Len(SplitText(Top.text.len, ChunkSize)) = 1
    /\ \E summary \in Summaries : Return(summary)
    /\ genOver' = (genOver \/ Len(SplitText(SplitText(Top.text.len, ChunkSize)[1], ChunkSize)) > 1)
    /\ UNCHANGED <<maxDepth, limitHit, pdfVars, loadVars, mainVars>>

\* len(chunks) != 1: start the loop over the chunks.
SumSplit ==
    /\ stack # <<>>
    /\ Top.pc = "enter"
    /\ ~DepthExceeded(Top.depth)
    /\ Len(SplitText(Top.text.len, ChunkSize)) # 1
    /\ stack' = [stack EXCEPT ![Len(stack)] =
                    [Top EXCEPT !.pc = "loop", !.chunks = SplitText(Top.text.len, ChunkSize)]]
    /\ UNCHANGED <<maxDepth, genOver, limitHit, sdone, sresult, pdfVars, loadVars, mainVars>>

\* for chunk in chunks: summarize_text_recursively(chunk, max_chunk_size, recursion_depth+1)
SumLoopCall ==
    /\ stack # <<>>
    /\ Top.pc = "loop"
    /\ Top.i <= Len(Top.chunks)
    /\ stack' = Append(stack, Frame([len |-> Top.chunks[Top.i], kind |-> "chunk"], Top.depth + 1))
    /\ maxDepth' = IF Top.depth + 1 > maxDepth THEN Top.depth + 1 ELSE maxDepth
    /\ UNCHANGED <<genOver, limitHit, sdone, sresult, pdfVars, loadVars, mainVars>>

\* combined_summaries fits one chunk: return generate_summary(combined_summaries).
SumCombineGen ==
    /\ stack # <<>>
    /\ Top.pc = "loop"
    /\ Top.i > Len(Top.chunks)
    /\ FitsOneChunk(Top.acc, ChunkSize)
    /\ \E summary \in Summaries : Return(summary)
    /\ genOver' = (genOver \/ Len(SplitText(Top.acc, ChunkSize)) > 1)
    /\ UNCHANGED <<maxDepth, limitHit, pdfVars, loadVars, mainVars>>

\* otherwise: return summarize_text_recursively(combined_summaries, max_chunk_size, recursion_depth+1)
SumCombineRecurse ==
    /\ stack # <<>>
    /\ Top.pc = "loop"
    /\ Top.i > Len(Top.chunks)
    /\ ~FitsOneChunk(Top.acc, ChunkSize)
    /\ stack' = Append([stack EXCEPT ![Len(stack)] =
                           [pc |-> "tail", text |-> NoText, depth |-> Top.depth,
                            chunks |-> <<>>, i |-> 1, acc |-> 0]],
                       Frame([len |-> Top.acc, kind |-> "join"], Top.depth + 1))
    /\ maxDepth' = IF Top.depth + 1 > maxDepth THEN Top.depth + 1 ELSE maxDepth
    /\ UNCHANGED <<genOver, limitHit, sdone, sresult, pdfVars, loadVars, mainVars>>

SumNext ==
    \/ SumStop
    \/ SumDirect
    \/ SumSplit
    \/ SumLoopCall
    \/ SumCombineGen
    \/ SumCombineRecurse

SpecSum == SumInit /\ [][SumNext]_vars

\* The interpreter runs the call to its end: a step that can be taken is taken.
SpecSumLive == SumInit /\ [][SumNext]_vars /\ WF_vars(SumNext)

\* C5: summarize_text_recursively terminates, and no invocation is entered with
\* recursion_depth greater than MAX_RECURSION_DEPTH + 1.
C5_BoundedRecursion ==
    /\ [](/\ maxDepth <= MAX_RECURSION_DEPTH + 1
          /\ \A k \in 1..Len(stack) : stack[k].depth <= MAX_RECURSION_DEPTH + 1)
    /\ <>sdone

\* The call has returned after going as deep as the guard allows, with
\* summaries longer than the texts they summarise.
C5_Witness ==
    /\ sdone
    /\ maxDepth = MAX_RECURSION_DEPTH + 1
    /\ limitHit
    /\ sresult.len > MaxTextLen

\* C8 (as claimed): every text given to generate_summary is at most one chunk,
\* and the description returned is the output of a generate_summary call.
C8_AlwaysModelOutput ==
    /\ ~genOver
    /\ sdone => sresult.kind = "gen"

\* C8 (amended): every text given to generate_summary is at most one chunk; the
\* description returned is the output of generate_summary unless the recursion
\* was cut off by the depth guard, and then it is the joined summaries, longer
\* than one chunk, returned as they are; it is never the input text itself.
C8_ModelOutputUnlessCutOff ==
    /\ ~genOver
    /\ sdone => /\ sresult.kind \in {"gen", "join"}
                /\ sresult.kind = "join" =>
                       (limitHit /\ Len(SplitText(sresult.len, ChunkSize)) > 1)

\* The recursion was cut off and the description is the joined text.
C8_Witness ==
    /\ sdone
    /\ limitHit
    /\ sresult.kind = "join"
    /\ ~genOver

\* ------------------------------------------------ load_documents_multiprocessing
ImageExts == {".png", ".jpg", ".jpeg"}
SupportedExts == {".docx", ".pdf", ".txt"} \cup ImageExts

RECURSIVE JoinLen(_)
\* ' '.join(contents): the tokens of all chunks
JoinLen(chunks) ==
    IF chunks = <<>> THEN 0 ELSE Head(chunks) + JoinLen(Tail(chunks))

\* process_document((file_path, chunk_size)) in a process whose pdf_cache is cache.
\* kind: "none" for (None, None), "doc" for (Document, file_path), "raise" when
\* the reader's exception leaves the function.
process_document(cache, path, entry) ==
    LET ext == FileExt(path)
        r == CASE ext = ".docx" -> read_word_file(cache, path, entry)
               [] ext = ".pdf" -> read_pdf_file(cache, path, entry)
               [] ext \in ImageExts -> read_image_file(cache, path, entry)
               [] ext = ".txt" -> read_text_file(cache, path, entry)
               [] OTHER -> Outcome(0, cache, FALSE, FALSE)
    IN  IF ext \notin SupportedExts
        THEN [kind |-> "none", text |-> 0, file_path |-> path,
              cache |-> cache, opened |-> FALSE]
        ELSE IF r.raised
        THEN [kind |-> "raise", text |-> 0, file_path |-> path,
              cache |-> r.cache, opened |-> r.opened]
        ELSE [kind |-> "doc",
              text |-> IF ext = ".pdf" THEN r.ret
                       ELSE JoinLen(SplitText(r.ret, LOAD_CHUNK_SIZE)),
              file_path |-> path, cache |-> r.cache, opened |-> r.opened]

NoFileLimit(w) == w

\* file_paths = file_paths[:10]
FirstFiles(w) == SubSeq(w, 1, Min(Len(w), FILE_LIMIT))

\* Documents SimpleDirectoryReader yields for one file: one per page of a PDF
\* (none when it cannot parse the file), one for any other file.
ReaderDocs(path, pages) == IF FileExt(path) = ".pdf" THEN pages ELSE 1

RECURSIVE Repeat(_, _)
Repeat(x, n) == IF n = 0 THEN <<>> ELSE <<x>> \o Repeat(x, n - 1)

RECURSIVE ReaderPaths(_, _)
\* [(d.metadata['file_path'], chunk_size) for docs in reader for d in docs]
ReaderPaths(files, pages) ==
    IF files = <<>> THEN <<>>
    ELSE Repeat(Head(files), ReaderDocs(Head(files), pages))
         \o ReaderPaths(Tail(files), pages)

Workers == 1..NumWorkers

\* Process 0 is the parent, which calls pool.map; the others are the workers.
ProcCache(v) == IF v = 0 THEN pdf_cache ELSE wcache[v]

SharedCacheAfter(w, v, cache) == cache

\* pdf_cache of process v after worker process w ran a task that left its own
\* pdf_cache as cache: every process of the Pool has its own module state.
CacheAfter(w, v, cache) == IF v = w THEN cache ELSE ProcCache(v)

\* pool.map hands the tasks out in chunks of this many consecutive tasks.
MapChunkSize(n) ==
    IF n % (NumWorkers * 4) = 0
    THEN n \div (NumWorkers * 4)
    ELSE (n \div (NumWorkers * 4)) + 1

ExtCycle == <<".txt", ".md", ".png", ".docx", ".pdf", ".jpeg", ".JPG", ".PDF">>

WalkFile(i) == [stem |-> i, ext |-> ExtCycle[((i - 1) % Len(ExtCycle)) + 1]]

Range(f) == {f[x] : x \in DOMAIN f}

LoadInit ==
    /\ SumIdle
    /\ MainIdle
    /\ pdf_cache = EmptyCache
    /\ succeeded = {}
    /\ failedOnce = {}
    /\ calls = 0
    /\ last = NoCall
    /\ dirExists \in BOOLEAN
    /\ \E n \in 0..MaxWalk, bad \in 0..MaxBad :
        /\ bad <= n
        /\ dirExists = FALSE => n = 0
        /\ walk = [i \in 1..n |-> WalkFile(i)]
        /\ disk = [f \in {WalkFile(i) : i \in 1..n} |->
                      [ok |-> f.stem # bad, text |-> f.stem % (MaxContent + 1)]]
    /\ tasks = <<>>
    /\ nextTask = 1
    /\ wtask = [w \in Workers |-> <<>>]
    /\ wcache = [w \in Workers |-> EmptyCache]
    /\ wopened = [w \in Workers |-> {}]
    /\ results = <<>>
    /\ lpc = "start"
    /\ documents = <<>>
    /\ file_paths = <<>>

\* if not os.path.exists(path): raise ValueError
LoadMissing ==
    /\ lpc = "start"
    /\ ~dirExists
    /\ lpc' = "crashed"
    /\ UNCHANGED <<dirExists, walk, tasks, nextTask, wtask, wcache, wopened, results,
                   documents, file_paths, pdfVars, sumVars, mainVars>>

\* The walk, the limit to the first files, the reader, and the hand-over to pool.map.
LoadList ==
    /\ lpc = "start"
    /\ dirExists
    /\ \E pages \in 0..MaxPages :
        /\ tasks' = ReaderPaths(FirstFiles(walk), pages)
        /\ results' = [i \in 1..Len(tasks') |->
                          [kind |-> "pending", text |-> 0, file_path |-> tasks'[i]]]
    /\ nextTask' = 1
    /\ lpc' = "map"
    /\ UNCHANGED <<dirExists, walk, wtask, wcache, wopened, documents, file_paths,
                   pdfVars, sumVars, mainVars>>

\* An idle worker process takes the next chunk of tasks of the queue.
WorkerTake(w) ==
    /\ lpc = "map"
    /\ wtask[w] = <<>>
    /\ nextTask <= Len(tasks)
    /\ LET upto == Min(nextTask + MapChunkSize(Len(tasks)) - 1, Len(tasks)) IN
        /\ wtask' = [wtask EXCEPT ![w] = [k \in 1..(upto - nextTask + 1) |->
                                             nextTask + k - 1]]
        /\ nextTask' = upto + 1
    /\ UNCHANGED <<dirExists, walk, tasks, wcache, wopened, results, lpc, documents,
                   file_paths, pdfVars, sumVars, mainVars>>

\* A worker process runs process_document on the next task of its chunk; the
\* result goes back to the parent. A chunk is one list(map(process_document,
\* chunk)) in the worker: when a task raises, the rest of the chunk is never
\* run, and the worker is free for the next chunk.
WorkerProcess(w) ==
    /\ lpc = "map"
    /\ wtask[w] # <<>>
    /\ LET i == Head(wtask[w])
           r == process_document(wcache[w], tasks[i], disk[tasks[i]])
       IN /\ results' = [results EXCEPT ![i] =
                            [kind |-> r.kind, text |-> r.text, file_path |-> r.file_path]]
          /\ wcache' = [v \in Workers |-> CacheAfter(w, v, r.cache)]
          /\ pdf_cache' = CacheAfter(w, 0, r.cache)
          /\ wopened' = [wopened EXCEPT ![w] =
                            IF r.opened /\ FileExt(tasks[i]) = ".pdf"
                            THEN @ \cup {tasks[i]} ELSE @]
          /\ wtask' = [wtask EXCEPT ![w] = IF r.kind = "raise" THEN <<>> ELSE Tail(@)]
    /\ UNCHANGED <<dirExists, walk, tasks, nextTask, lpc, documents, file_paths,
                   disk, succeeded, failedOnce, calls, last, sumVars, mainVars>>

AllTasksDone ==
    /\ nextTask > Len(tasks)
    /\ \A w \in Workers : wtask[w] = <<>>

IsResult(r) == r.kind # "none"

\* pool.map re-raises a worker's exception in the parent once all chunks ended;
\* the tasks behind the raising one in its chunk are still "pending" then.
LoadRaise ==
    /\ lpc = "map"
    /\ AllTasksDone
    /\ \E i \in 1..Len(results) : results[i].kind = "raise"
    /\ lpc' = "crashed"
    /\ UNCHANGED <<dirExists, walk, tasks, nextTask, wtask, wcache, wopened, results,
                   documents, file_paths, pdfVars, sumVars, mainVars>>

\* Filter out None results and return documents, file_paths.
LoadReturn ==
    /\ lpc = "map"
    /\ AllTasksDone
    /\ \A i \in 1..Len(results) : results[i].kind # "raise"
    /\ LET kept == SelectSeq(results, IsResult) IN
        /\ documents' = [i \in 1..Len(kept) |->
                            [text |-> kept[i].text, file_path |-> kept[i].file_path]]
        /\ file_paths' = [i \in 1..Len(kept) |-> kept[i].file_path]
    /\ lpc' = "done"
    /\ UNCHANGED <<dirExists, walk, tasks, nextTask, wtask, wcache, wopened, results,
                   pdfVars, sumVars, mainVars>>

LoadNext ==
    \/ LoadMissing
    \/ LoadList
    \/ \E w \in Workers : WorkerTake(w)
    \/ \E w \in Workers : WorkerProcess(w)
    \/ LoadRaise
    \/ LoadReturn

SpecLoad == LoadInit /\ [][LoadNext]_vars

\* C1: an unreadable file of a supported type never ends the run: its reader
\* returns the empty string, whichever of the four readers it is.
C1_UnreadableSwallowed ==
    /\ \A i \in 1..Len(results) : results[i].kind # "raise"
    /\ lpc = "crashed" => ~dirExists

\* What the tasks yield when run one after the other, each in a fresh process.
SequentialResults ==
    LET one(i) == process_document(EmptyCache, tasks[i], disk[tasks[i]])
        all == [i \in 1..Len(tasks) |->
                   [kind |-> one(i).kind, text |-> one(i).text,
                    file_path |-> one(i).file_path]]
    IN SelectSeq(all, IsResult)

\* C7: the pool's workers share no state: whatever the interleaving, the
\* documents and paths returned are those of the tasks in pool.map's input
\* order, and a worker's pdf_cache holds only what that worker read itself;
\* the parent's pdf_cache stays empty.
C7_WorkersIsolated ==
    /\ \A w \in DOMAIN wcache : DOMAIN wcache[w] \subseteq wopened[w]
    /\ pdf_cache = EmptyCache
    /\ lpc = "done" =>
        /\ documents = [i \in 1..Len(SequentialResults) |->
                           [text |-> SequentialResults[i].text,
                            file_path |-> SequentialResults[i].file_path]]
        /\ file_paths = [i \in 1..Len(SequentialResults) |->
                            SequentialResults[i].file_path]

\* Both workers read and cached the same PDF, each for itself, and the load
\* returned.
C7_Witness ==
    /\ lpc = "done"
    /\ \E p \in DOMAIN wcache[1] : p \in DOMAIN wcache[2]
    /\ Len(documents) > 3

\* C9: only the first FILE_LIMIT files of the walk are parsed; every returned
\* path is one of them and has a supported extension, unsupported files are
\* dropped, and documents[i].metadata['file_path'] = file_paths[i].
C9_FirstTenSupported ==
    /\ \A t \in 1..Len(tasks) :
           \E k \in 1..Min(Len(walk), FILE_LIMIT) : walk[k] = tasks[t]
    /\ lpc = "done" =>
        /\ Len(documents) = Len(file_paths)
        /\ \A i \in 1..Len(file_paths) :
            /\ documents[i].file_path = file_paths[i]
            /\ Lower(file_paths[i].ext) \in SupportedExts
            /\ \E k \in 1..Min(Len(walk), FILE_LIMIT) : walk[k] = file_paths[i]
        /\ \A k \in 1..Len(tasks) :
               Lower(tasks[k].ext) \in SupportedExts =>
                   \E i \in 1..Len(file_paths) : file_paths[i] = tasks[k]

\* A directory of more than FILE_LIMIT files, an unsupported one among the
\* first, and a supported one past the limit that was left out.
C9_Witness ==
    /\ lpc = "done"
    /\ Len(walk) > FILE_LIMIT
    /\ Lower(walk[Len(walk)].ext) \in SupportedExts
    /\ \E k \in 1..FILE_LIMIT : Lower(walk[k].ext) \notin SupportedExts
    /\ Len(file_paths) >= FILE_LIMIT - 2

\* ------------------------------------------------ sanitize_description
\* A description is a sequence of characters.
WordChars == {"a", "b", "A", "B", "1", "_"}     \* some of \w
SpaceChars == {" "}                              \* some of \s

LowerChar(c) == CASE c = "A" -> "a" [] c = "B" -> "b" [] OTHER -> c

IsKept(c) == c \in WordChars \cup SpaceChars \cup {"-"}

RECURSIVE Strip(_)
\* str.strip()
Strip(d) ==
    IF d = <<>> THEN d
    ELSE IF Head(d) \in SpaceChars THEN Strip(Tail(d))
    ELSE IF d[Len(d)] \in SpaceChars THEN Strip(SubSeq(d, 1, Len(d) - 1))
    ELSE d

RECURSIVE Collapse(_)
\* re.sub(r'[-\s]+', '-', sanitized)
Collapse(d) ==
    IF d = <<>> THEN d
    ELSE IF Head(d) \in SpaceChars \cup {"-"}
         THEN IF Len(d) > 1 /\ d[2] \in SpaceChars \cup {"-"}
              THEN Collapse(Tail(d))
              ELSE <<"-">> \o Collapse(Tail(d))
         ELSE <<Head(d)>> \o Collapse(Tail(d))

SANITIZE_LIMIT == 50

sanitize_description(description) ==
    LET kept == SelectSeq(description, IsKept)
        stripped == Strip(kept)
        lowered == [i \in 1..Len(stripped) |-> LowerChar(stripped[i])]
        dashed == Collapse(lowered)
    IN SubSeq(dashed, 1, Min(Len(dashed), SANITIZE_LIMIT))

\* What the models may return as a description: "A! b", " a- b." and "a-b_1".
Descriptions == { <<"A", "!", " ", "b">>,
                  <<" ", "a", "-", " ", "b", ".">>,
                  <<"a", "-", "b", "_", "1">> }

\* ------------------------------------------------ destination paths
\* A path is the sequence of its components from the root; a component is a
\* sequence of characters (a file name ends with its extension).
NEW_PATH == << <<"home">>, <<"renamed_files">> >>

\* What extract_topic may return: "cats", "../renamed_files/cats", "../cats", "/tmp".
Topics == { [abs |-> FALSE, parts |-> << <<"cats">> >>],
            [abs |-> FALSE, parts |-> << <<"..">>, <<"renamed_files">>, <<"cats">> >>],
            [abs |-> FALSE, parts |-> << <<"..">>, <<"cats">> >>],
            [abs |-> TRUE, parts |-> << <<"tmp">> >>] }

\* os.path.join(base_path, topic)
os_path_join(base, topic) == IF topic.abs THEN topic.parts ELSE base \o topic.parts

RECURSIVE ResolveFrom(_, _)
ResolveFrom(done, rest) ==
    IF rest = <<>> THEN done
    ELSE IF Head(rest) = <<"..">>
         THEN ResolveFrom(IF done = <<>> THEN done ELSE SubSeq(done, 1, Len(done) - 1),
                          Tail(rest))
         ELSE ResolveFrom(Append(done, Head(rest)), Tail(rest))

\* The file-system object a path names: '..' components taken away.
Resolve(p) == ResolveFrom(<<>>, p)

Inside(p, base) ==
    LET r == Resolve(p) IN
    Len(r) >= Len(base) /\ SubSeq(r, 1, Len(base)) = base

Prefixes(p) == {SubSeq(p, 1, k) : k \in 1..Len(p)}

\* os.path.exists(p)
os_path_exists(p) == Resolve(p) \in fsFiles \cup fsDirs

RECURSIVE Decimal(_)
Decimal(n) ==
    LET digit == <<"0", "1", "2", "3", "4", "5", "6", "7", "8", "9">>[(n % 10) + 1] IN
    IF n < 10 THEN <<digit>> ELSE Decimal(n \div 10) \o <<digit>>

\* sanitize_description(d) + ext, or f"{sanitize_description(d)}_{counter}" + ext
FileName(description, counter, ext) ==
    IF counter = 0
    THEN sanitize_description(description) \o <<ext>>
    ELSE sanitize_description(description) \o <<"_">> \o Decimal(counter) \o <<ext>>

RECURSIVE FirstFreeInRun(_, _, _, _)
FirstFreeInRun(dir_path, description, ext, counter) ==
    LET new_file_path == Append(dir_path, FileName(description, counter, ext)) IN
    IF new_file_path \in renamed_files
    THEN FirstFreeInRun(dir_path, description, ext, counter + 1)
    ELSE new_file_path

RECURSIVE UniquePath(_, _, _, _)
\* while new_file_path in renamed_files or os.path.exists(new_file_path): ...
UniquePath(dir_path, description, ext, counter) ==
    LET new_file_path == Append(dir_path, FileName(description, counter, ext)) IN
    IF new_file_path \in renamed_files \/ os_path_exists(new_file_path)
    THEN UniquePath(dir_path, description, ext, counter + 1)
    ELSE new_file_path

\* ------------------------------------------------ the main script
MaxDirFiles == 2     \* most files in the source directory of a run of the script

MainExts == <<".txt", ".png", ".txt", ".pdf", ".docx", ".md">>

MainFile(i) == [stem |-> i, ext |-> MainExts[i]]

\* load_documents_multiprocessing as the parent sees it: the documents of the
\* tasks in pool.map's order, or the exception of a worker.
LoadOutcome(taskPaths) ==
    LET one(i) == process_document(EmptyCache, taskPaths[i], disk[taskPaths[i]])
        all == [i \in 1..Len(taskPaths) |->
                   [kind |-> one(i).kind, text |-> one(i).text,
                    file_path |-> one(i).file_path]]
        kept == SelectSeq(all, IsResult)
    IN [raised |-> \E i \in 1..Len(all) : all[i].kind = "raise",
        documents |-> [i \in 1..Len(kept) |->
                          [text |-> kept[i].text, file_path |-> kept[i].file_path]],
        file_paths |-> [i \in 1..Len(kept) |-> kept[i].file_path]]

IsImageDoc(doc) == FileExt(doc.file_path) \in ImageExts
IsTextDoc(doc) == FileExt(doc.file_path) = ".txt"
IsPdfDoc(doc) == FileExt(doc.file_path) = ".pdf"

PathsOf(docs) == [i \in 1..Len(docs) |-> docs[i].file_path]

\* image_files, text_files, pdf_files
image_files == PathsOf(SelectSeq(documents, IsImageDoc))
text_files == PathsOf(SelectSeq(documents, IsTextDoc))
pdf_files == PathsOf(SelectSeq(documents, IsPdfDoc))

\* d[key] = value on a dict kept in insertion order
DictPut(d, key, value) ==
    IF \E i \in 1..Len(d) : d[i].file_path = key
    THEN [i \in 1..Len(d) |-> IF d[i].file_path = key THEN value ELSE d[i]]
    ELSE Append(d, value)

RECURSIVE ReadPdfTuples(_, _)
\* [(file_path, read_pdf_file(file_path)) for file_path in pdf_files], with the
\* cache the calls leave behind
ReadPdfTuples(paths, cache) ==
    IF paths = <<>> THEN [tuples |-> <<>>, cache |-> cache]
    ELSE LET r == read_pdf_file(cache, Head(paths), disk[Head(paths)])
             rest == ReadPdfTuples(Tail(paths), r.cache)
         IN [tuples |-> <<[file_path |-> Head(paths), text |-> r.ret]>> \o rest.tuples,
             cache |-> rest.cache]

DumpBeforeTexts(pc) ==
    CASE pc = "describe_images" -> "dump_images"
      [] pc = "dump_images" -> "dump_texts"
      [] pc = "dump_texts" -> "describe_texts"
      [] pc = "describe_texts" -> "prepare"
      [] pc = "prepare" -> "copy_images"
      [] pc = "copy_images" -> "copy_texts"
      [] OTHER -> "done"

\* The order of the script's steps after the documents are loaded.
NextPc(pc) ==
    CASE pc = "describe_images" -> "describe_texts"
      [] pc = "describe_texts" -> "dump_images"
      [] pc = "dump_images" -> "dump_texts"
      [] pc = "dump_texts" -> "prepare"
      [] pc = "prepare" -> "copy_images"
      [] pc = "copy_images" -> "copy_texts"
      [] OTHER -> "done"

MainInit ==
    /\ SumIdle
    /\ pdf_cache = EmptyCache
    /\ succeeded = {}
    /\ failedOnce = {}
    /\ calls = 0
    /\ last = NoCall
    /\ dirExists \in BOOLEAN
    /\ \E chosen \in SUBSET (1..Len(MainExts)), bad \in 0..Len(MainExts) :
        /\ Cardinality(chosen) <= MaxDirFiles
        /\ bad = 0 \/ bad \in chosen
        /\ dirExists = FALSE => chosen = {}
        /\ walk = SelectSeq([i \in 1..Len(MainExts) |-> MainFile(i)],
                            LAMBDA f : f.stem \in chosen)
        /\ disk = [f \in {MainFile(i) : i \in chosen} |->
                      [ok |-> f.stem # bad, text |-> f.stem % (MaxContent + 1)]]
    /\ tasks = <<>>
    /\ nextTask = 1
    /\ wtask = <<>>
    /\ wcache = <<>>
    /\ wopened = <<>>
    /\ results = <<>>
    /\ lpc = "idle"
    /\ documents = <<>>
    /\ file_paths = <<>>
    /\ mpc = "start"
    /\ idx = 1
    /\ text_and_pdf_tuples = <<>>
    /\ images = <<>>
    /\ texts = <<>>
    /\ jsonWrites = [images |-> 0, texts |-> 0]
    \* the destination tree may hold the files of an earlier run
    /\ \E earlier \in BOOLEAN :
        /\ fsFiles = IF earlier
                     THEN {NEW_PATH \o << <<"cats">>, <<"a", "-", "b", ".txt">> >>,
                           NEW_PATH \o << <<"cats">>, <<"a", "-", "b", ".png">> >>}
                     ELSE {}
        /\ fsDirs = IF earlier
                    THEN {<< <<"home">> >>, NEW_PATH, NEW_PATH \o << <<"cats">> >>}
                    ELSE {<< <<"home">> >>}
    /\ renamed_files = {}
    /\ processed_files = {}
    /\ uploaded_files_count = 0
    /\ generated_files_count = 0
    /\ copies = <<>>
    /\ mkdirs = {}

\* if not os.path.exists(path): print(...) and nothing else
MainMissingDir ==
    /\ mpc = "start"
    /\ ~dirExists
    /\ mpc' = "done"
    /\ UNCHANGED <<idx, text_and_pdf_tuples, images, texts, jsonWrites, fsFiles, fsDirs,
                   renamed_files, processed_files, uploaded_files_count,
                   generated_files_count, copies, mkdirs, pdfVars, sumVars, loadVars>>

\* documents, file_paths = load_documents_multiprocessing(path)
MainLoad ==
    /\ mpc = "start"
    /\ dirExists
    /\ \E pages \in 0..MaxPages :
        LET out == LoadOutcome(ReaderPaths(FirstFiles(walk), pages)) IN
        /\ tasks' = ReaderPaths(FirstFiles(walk), pages)
        /\ IF out.raised
           THEN mpc' = "crashed" /\ UNCHANGED <<documents, file_paths>>
           ELSE /\ mpc' = "describe_images"
                /\ documents' = out.documents
                /\ file_paths' = out.file_paths
    /\ idx' = 1
    /\ UNCHANGED <<text_and_pdf_tuples, images, texts, jsonWrites, fsFiles, fsDirs,
                   renamed_files, processed_files, uploaded_files_count,
                   generated_files_count, copies, mkdirs, pdfVars, sumVars,
                   dirExists, walk, nextTask, wtask, wcache, wopened, results, lpc>>

\* One iteration of get_decriptions_and_embeddings_for_images.
MainDescribeImage ==
    /\ mpc = "describe_images"
    /\ idx <= Len(image_files)
    /\ \E description \in Descriptions :
        images' = DictPut(images, image_files[idx],
                          [file_path |-> image_files[idx], description |-> description,
                           embedding |-> "vector"])
    /\ idx' = idx + 1
    /\ UNCHANGED <<mpc, text_and_pdf_tuples, texts, jsonWrites, fsFiles, fsDirs,
                   renamed_files, processed_files, uploaded_files_count,
                   generated_files_count, copies, mkdirs, pdfVars, sumVars, loadVars>>

\* The image descriptions are complete; read the text and PDF files again.
MainReadTexts ==
    /\ mpc = "describe_images"
    /\ idx > Len(image_files)
    /\ LET text_tuples == [i \in 1..Len(text_files) |->
                              [file_path |-> text_files[i],
                               text |-> read_text_file(pdf_cache, text_files[i],
                                                       disk[text_files[i]]).ret]]
           pdf == ReadPdfTuples(pdf_files, pdf_cache)
       IN /\ text_and_pdf_tuples' = text_tuples \o pdf.tuples
          /\ pdf_cache' = pdf.cache
    /\ mpc' = NextPc("describe_images")
    /\ idx' = 1
    /\ UNCHANGED <<images, texts, jsonWrites, fsFiles, fsDirs,
                   renamed_files, processed_files, uploaded_files_count,
                   generated_files_count, copies, mkdirs, sumVars, loadVars,
                   disk, succeeded, failedOnce, calls, last>>

\* One iteration of get_descriptions_and_embeddings_for_texts.
MainDescribeText ==
    /\ mpc = "describe_texts"
    /\ idx <= Len(text_and_pdf_tuples)
    /\ \E description \in Descriptions :
        texts' = Append(texts, [file_path |-> text_and_pdf_tuples[idx].file_path,
                                description |-> description, embeddings |-> "vector"])
    /\ idx' = idx + 1
    /\ UNCHANGED <<mpc, text_and_pdf_tuples, images, jsonWrites, fsFiles, fsDirs,
                   renamed_files, processed_files, uploaded_files_count,
                   generated_files_count, copies, mkdirs, pdfVars, sumVars, loadVars>>

MainTextsDescribed ==
    /\ mpc = "describe_texts"
    /\ idx > Len(text_and_pdf_tuples)
    /\ mpc' = NextPc("describe_texts")
    /\ idx' = 1
    /\ UNCHANGED <<text_and_pdf_tuples, images, texts, jsonWrites, fsFiles, fsDirs,
                   renamed_files, processed_files, uploaded_files_count,
                   generated_files_count, copies, mkdirs, pdfVars, sumVars, loadVars>>

\* json.dump(descriptions_and_embeddings_images, ...)
MainDumpImages ==
    /\ mpc = "dump_images"
    /\ jsonWrites' = [jsonWrites EXCEPT !.images = @ + 1]
    /\ mpc' = NextPc("dump_images")
    /\ UNCHANGED <<idx, text_and_pdf_tuples, images, texts, fsFiles, fsDirs,
                   renamed_files, processed_files, uploaded_files_count,
                   generated_files_count, copies, mkdirs, pdfVars, sumVars, loadVars>>

\* json.dump(descriptions_and_embeddings_texts, ...)
MainDumpTexts ==
    /\ mpc = "dump_texts"
    /\ jsonWrites' = [jsonWrites EXCEPT !.texts = @ + 1]
    /\ mpc' = NextPc("dump_texts")
    /\ UNCHANGED <<idx, text_and_pdf_tuples, images, texts, fsFiles, fsDirs,
                   renamed_files, processed_files, uploaded_files_count,
                   generated_files_count, copies, mkdirs, pdfVars, sumVars, loadVars>>

\* renamed_files, processed_files, os.makedirs(new_path), the two counters
MainPrepare ==
    /\ mpc = "prepare"
    /\ renamed_files' = {}
    /\ processed_files' = {}
    /\ fsDirs' = fsDirs \cup Prefixes(NEW_PATH)
    /\ uploaded_files_count' = Len(file_paths)
    /\ generated_files_count' = 0
    /\ mpc' = NextPc("prepare")
    /\ idx' = 1
    /\ UNCHANGED <<text_and_pdf_tuples, images, texts, jsonWrites, fsFiles,
                   copies, mkdirs, pdfVars, sumVars, loadVars>>

\* The body of either copy loop for one entry: skip a processed file, else
\* extract the topic, make its directory, find a free name and copy.
CopyEntry(entry) ==
    IF entry.file_path \in processed_files
    THEN UNCHANGED <<processed_files, fsFiles, fsDirs, renamed_files,
                     generated_files_count, copies, mkdirs>>
    ELSE \E topic \in Topics :
        LET dir_path == os_path_join(NEW_PATH, topic)
            new_file_path == UniquePath(dir_path, entry.description,
                                        entry.file_path.ext, 0)
        IN /\ processed_files' = processed_files \cup {entry.file_path}
           /\ fsDirs' = fsDirs \cup Prefixes(Resolve(dir_path))
           /\ mkdirs' = mkdirs \cup {Resolve(dir_path)}
           /\ copies' = Append(copies,
                  [src |-> entry.file_path, dst |-> Resolve(new_file_path),
                   existed |-> Resolve(new_file_path) \in fsFiles \cup fsDirs])
           /\ fsFiles' = fsFiles \cup {Resolve(new_file_path)}
           /\ renamed_files' = renamed_files \cup {new_file_path}
           /\ generated_files_count' = generated_files_count + 1

\* for image_path, data in descriptions_and_embeddings_images.items()
MainCopyImage ==
    /\ mpc = "copy_images"
    /\ idx <= Len(images)
    /\ CopyEntry(images[idx])
    /\ idx' = idx + 1
    /\ UNCHANGED <<mpc, text_and_pdf_tuples, images, texts, jsonWrites,
                   uploaded_files_count, pdfVars, sumVars, loadVars>>

MainImagesCopied ==
    /\ mpc = "copy_images"
    /\ idx > Len(images)
    /\ mpc' = NextPc("copy_images")
    /\ idx' = 1
    /\ UNCHANGED <<text_and_pdf_tuples, images, texts, jsonWrites, fsFiles, fsDirs,
                   renamed_files, processed_files, uploaded_files_count,
                   generated_files_count, copies, mkdirs, pdfVars, sumVars, loadVars>>

\* for text_data in descriptions_and_embeddings_texts
MainCopyText ==
    /\ mpc = "copy_texts"
    /\ idx <= Len(texts)
    /\ CopyEntry(texts[idx])
    /\ idx' = idx + 1
    /\ UNCHANGED <<mpc, text_and_pdf_tuples, images, texts, jsonWrites,
                   uploaded_files_count, pdfVars, sumVars, loadVars>>

\* The tree and the two counts are printed.
MainFinish ==
    /\ mpc = "copy_texts"
    /\ idx > Len(texts)
    /\ mpc' = NextPc("copy_texts")
    /\ idx' = 1
    /\ UNCHANGED <<text_and_pdf_tuples, images, texts, jsonWrites, fsFiles, fsDirs,
                   renamed_files, processed_files, uploaded_files_count,
                   generated_files_count, copies, mkdirs, pdfVars, sumVars, loadVars>>

Next ==
    \/ MainMissingDir
    \/ MainLoad
    \/ MainDescribeImage
    \/ MainReadTexts
    \/ MainDescribeText
    \/ MainTextsDescribed
    \/ MainDumpImages
    \/ MainDumpTexts
    \/ MainPrepare
    \/ MainCopyImage
    \/ MainImagesCopied
    \/ MainCopyText
    \/ MainFinish

Init == MainInit

Spec == Init /\ [][Next]_vars

\* ------------------------------------------------ properties of the main script
CopiesOf(p) == {i \in 1..Len(copies) : copies[i].src = p}

HasDescription(p) ==
    \/ \E i \in 1..Len(images) :
           images[i].file_path = p /\ images[i].embedding = "vector"
    \/ \E i \in 1..Len(texts) :
           texts[i].file_path = p /\ texts[i].embeddings = "vector"

\* C2: every directory create_directory_structure makes and every target of
\* shutil.copy2 lies inside new_path, whatever topic the model returns.
C2_WritesInsideNewPath ==
    /\ \A d \in mkdirs : Inside(d, NEW_PATH)
    /\ \A i \in 1..Len(copies) : Inside(copies[i].dst, NEW_PATH)

\* C3: at the end of a run every loaded file has a description and an
\* embedding and was copied exactly once, and generated_files_count is the
\* number of distinct files loaded.
C3_EveryLoadedFileCopiedOnce ==
    (mpc = "done" /\ dirExists) =>
        /\ \A p \in Range(file_paths) :
               HasDescription(p) /\ Cardinality(CopiesOf(p)) = 1
        /\ generated_files_count = Cardinality(Range(file_paths))

\* C4: no two copies of a run have the same destination, and no copy targets a
\* path that existed before it, files of an earlier run included.
C4_DestinationsUnique ==
    /\ \A i, j \in 1..Len(copies) : i # j => copies[i].dst # copies[j].dst
    /\ \A i \in 1..Len(copies) : ~copies[i].existed

\* An earlier run left cats/a-b.txt; a file described "A! b" became
\* a-b_1.txt, and a file whose description sanitizes to a-b_1 then became
\* a-b_1_1.txt in the same directory, reached through another topic string.
C4_Witness ==
    /\ mpc = "done"
    /\ NEW_PATH \o << <<"cats">>, <<"a", "-", "b", ".txt">> >> \in fsFiles
    /\ Len(copies) = 2
    /\ copies[1].dst = NEW_PATH \o << <<"cats">>, <<"a", "-", "b", "_", "1", ".txt">> >>
    /\ copies[2].dst =
           NEW_PATH \o << <<"cats">>, <<"a", "-", "b", "_", "1", "_", "1", ".txt">> >>
    /\ Cardinality({Len(p) : p \in renamed_files}) = 2

AllDescribed ==
    /\ \A i \in 1..Len(image_files) : HasDescription(image_files[i])
    /\ Len(text_and_pdf_tuples) = Len(text_files) + Len(pdf_files)
    /\ Len(texts) = Len(text_and_pdf_tuples)

JsonWrittenOnceAfterDescriptions ==
    /\ jsonWrites.images <= 1
    /\ jsonWrites.texts <= 1
    /\ (mpc = "done" /\ dirExists) => (jsonWrites.images = 1 /\ jsonWrites.texts = 1)
    /\ (jsonWrites.images >= 1 \/ jsonWrites.texts >= 1) => AllDescribed

\* C6 (as claimed): each JSON file is written exactly once, after every
\* description and embedding is computed, and no copy is made after them.
C6_JsonWrittenLast ==
    /\ []JsonWrittenOnceAfterDescriptions
    /\ [][jsonWrites.texts >= 1 => copies' = copies]_vars

\* C6 (amended): each JSON file is written at most once, exactly once in a run
\* that reaches its end, after every description and embedding is computed and
\* before the first copy into the destination tree.
C6_JsonWrittenOnceBeforeCopies ==
    /\ JsonWrittenOnceAfterDescriptions
    /\ copies # <<>> => (jsonWrites.images = 1 /\ jsonWrites.texts = 1)

\* A finished run that described an image and a text file, wrote both JSON
\* files and then copied both files.
C6_Witness ==
    /\ mpc = "done"
    /\ jsonWrites = [images |-> 1, texts |-> 1]
    /\ Len(images) = 1
    /\ Len(texts) = 1
    /\ Len(copies) = 2
====
